---------------------------- MODULE Spec2Model ----------------------------
(***************************************************************************)
(* Model of nowforever_vfd.c: the userspace HAL component that polls a     *)
(* Nowforever D100/E100 VFD over Modbus RTU.  Each tick of main()'s loop   *)
(* reads eight registers (read_data), writes the run state (set_vfd_state) *)
(* and the frequency (set_vfd_freq) when they differ from what the drive   *)
(* reports, and derives the status pins (write_data).                      *)
(*                                                                         *)
(* The C code computes on IEEE 754 binary64 values (hal_float_t, double).  *)
(* TLC's integers are 32 bits wide, so a double is modelled as a sign, a   *)
(* 53-bit significand held in 13-bit limbs and a binary exponent, and the  *)
(* operations *, /, - and the (int) cast are computed with the rounding    *)
(* (to nearest, ties to even) the hardware applies.                        *)
(***************************************************************************)
EXTENDS Integers, Sequences, FiniteSets, TLC

---------------------------------------------------------------------------
(* Natural numbers of up to WIDTH limbs: little-endian sequences of limbs  *)
(* in 0..LIMB-1 without a most significant zero limb; <<>> is 0.  A        *)
(* significand has at most 5 limbs and no intermediate value of the        *)
(* arithmetic below needs more than WIDTH.  The operations are functions,  *)
(* so that an argument is evaluated once, when the function is applied.    *)

LIMBBITS == 12 + 1
LIMB == 2^LIMBBITS
WIDTH == 2 * 5

Limbs == Seq(Int)

BigLimb(x, i) == IF i >= 1 /\ i <= Len(x) THEN x[i] ELSE 0

BigNorm[x \in Limbs] ==
    SubSeq(x, 1, CHOOSE i \in 0..Len(x) :
                    /\ i = 0 \/ x[i] # 0
                    /\ \A j \in (i + 1)..Len(x) : x[j] = 0)

\* For n in 0 .. 2^31 - 1
BigOfNat[n \in Int] ==
    BigNorm[<<n % LIMB, (n \div LIMB) % LIMB, n \div (LIMB * LIMB)>>]

\* For x below 2^31
BigToNat[x \in Limbs] ==
    BigLimb(x, 1) + LIMB * (BigLimb(x, 2) + LIMB * BigLimb(x, 3))

\* One round of carrying: every limb keeps its low LIMBBITS bits and takes
\* the excess of the limb below.
BigRound[t \in Limbs] ==
    [i \in 1..WIDTH |-> (t[i] % LIMB) + (IF i > 1 THEN t[i - 1] \div LIMB ELSE 0)]

\* The last round, for limbs in 0..LIMB: a carry enters limb i when a limb
\* below it is LIMB and the limbs between are LIMB - 1 or more.
BigRipple[t \in Limbs] ==
    [i \in 1..WIDTH |->
        (t[i] + (IF \E j \in 1..(i - 1) :
                       /\ t[j] = LIMB
                       /\ \A h \in (j + 1)..(i - 1) : t[h] >= LIMB - 1
                 THEN 1 ELSE 0)) % LIMB]

\* The number whose value is the sum of t[i] * LIMB^(i-1) modulo LIMB^WIDTH,
\* for t of WIDTH limbs in 0 .. 2^30
BigCarry[t \in Limbs] == BigNorm[BigRipple[BigRound[BigRound[BigRound[t]]]]]

\* x * f + c for small f and c (at most 2^17)
BigMulAdd[x \in Limbs, f \in Int, c \in Int] ==
    BigCarry[[i \in 1..WIDTH |-> BigLimb(x, i) * f + (IF i = 1 THEN c ELSE 0)]]

BigAdd[x \in Limbs, y \in Limbs] ==
    BigCarry[[i \in 1..WIDTH |-> BigLimb(x, i) + BigLimb(y, i)]]

\* x - y for x >= y: x plus the complement of y, the carry out dropped
BigSub[x \in Limbs, y \in Limbs] ==
    BigCarry[[i \in 1..WIDTH |->
                 BigLimb(x, i) + (LIMB - 1 - BigLimb(y, i)) + (IF i = 1 THEN 1 ELSE 0)]]

\* -1, 0, 1 as x is below, equal to, above y
BigCmp[x \in Limbs, y \in Limbs] ==
    IF x = y THEN 0
    ELSE IF \E i \in 1..WIDTH :
               /\ BigLimb(x, i) < BigLimb(y, i)
               /\ \A j \in (i + 1)..WIDTH : BigLimb(x, j) = BigLimb(y, j)
    THEN -1 ELSE 1

\* x * LIMB^w
BigShiftLimbs[x \in Limbs, w \in Int] ==
    IF x = <<>> THEN <<>> ELSE [i \in 1..w |-> 0] \o x

\* x * y for x and y of at most 5 limbs
BigMul[x \in Limbs, y \in Limbs] ==
    BigCarry[[i \in 1..WIDTH |->
                  BigLimb(x, 1) * BigLimb(y, i)
                + BigLimb(x, 2) * BigLimb(y, i - 1)
                + BigLimb(x, 3) * BigLimb(y, i - 2)
                + BigLimb(x, 4) * BigLimb(y, i - 3)
                + BigLimb(x, 5) * BigLimb(y, i - 4)]]

BigBitLen[x \in Limbs] ==
    IF x = <<>> THEN 0
    ELSE (Len(x) - 1) * LIMBBITS
         + (CHOOSE n \in 1..LIMBBITS : 2^(n-1) <= x[Len(x)] /\ x[Len(x)] < 2^n)

\* x * 2^n
BigShiftL[x \in Limbs, n \in Int] ==
    BigShiftLimbs[BigMulAdd[x, 2^(n % LIMBBITS), 0], n \div LIMBBITS]

\* floor(x / 2^n)
BigShiftR[x \in Limbs, n \in Int] ==
    BigNorm[[i \in 1..WIDTH |->
               (BigLimb(x, i + (n \div LIMBBITS)) \div 2^(n % LIMBBITS))
               + (BigLimb(x, i + 1 + (n \div LIMBBITS)) % 2^(n % LIMBBITS))
                 * 2^(LIMBBITS - (n % LIMBBITS))]]

\* x mod 2^n
BigLowBits[x \in Limbs, n \in Int] == BigSub[x, BigShiftL[BigShiftR[x, n], n]]

BigOdd(x) == x # <<>> /\ x[1] % 2 = 1

\* g * d <= r
BigFits[r \in Limbs, d \in Limbs, g \in Int] == BigCmp[BigMulAdd[d, g, 0], r] <= 0

\* The largest of g, g - 1, g - 2, g - 3 that fits
BigFit[r \in Limbs, d \in Limbs, g \in Int] ==
    IF BigFits[r, d, g] THEN g
    ELSE IF BigFits[r, d, g - 1] THEN g - 1
    ELSE IF BigFits[r, d, g - 2] THEN g - 2
    ELSE g - 3

\* floor(r / d) for r < d * LIMB and d of 53 bits: the quotient limb is
\* estimated from the leading limbs (never too low, at most 2 too high) and
\* then fitted.
BigDivDigit[r \in Limbs, d \in Limbs] ==
    LET num == (BigLimb(r, Len(d) + 1) * LIMB + BigLimb(r, Len(d))) * LIMB
               + BigLimb(r, Len(d) - 1) + 1
        den == d[Len(d)] * LIMB + BigLimb(d, Len(d) - 1)
    IN  BigFit[r, d, IF num \div den >= LIMB THEN LIMB - 1 ELSE num \div den]

\* <<quotient limbs so far, r - g * d>>
BigDivRem[acc \in Seq(Limbs), r \in Limbs, d \in Limbs, g \in Int] ==
    <<<<g>> \o acc[1], BigSub[r, BigMulAdd[d, g, 0]]>>

\* One step of long division: from <<quotient limbs, remainder>>, the next
\* quotient limb (of remainder * LIMB by d) and the next remainder
BigDivStep[acc \in Seq(Limbs), d \in Limbs] ==
    BigDivRem[acc, BigShiftLimbs[acc[2], 1], d,
              BigDivDigit[BigShiftLimbs[acc[2], 1], d]]

\* Long division of r * LIMB^5 by d, for r < d: the pair of the 5 quotient
\* limbs (least significant first, zeros kept) and the remainder.
BigDivLimbs[r \in Limbs, d \in Limbs] ==
    BigDivStep[BigDivStep[BigDivStep[BigDivStep[BigDivStep[
        <<<<>>, r>>, d], d], d], d], d]

---------------------------------------------------------------------------
(* IEEE 754 binary64 values.  A finite value is (-1)^s * m * 2^e with m    *)
(* either 0 or of exactly SIGBITS bits, so equal values are equal records. *)

SIGBITS == 52 + 1

Double == [k : {"fin", "inf", "nan"}, s : {0, 1}, m : Limbs, e : Int]

DZero == [k |-> "fin", s |-> 0, m |-> <<>>, e |-> 0]
DInf(sign) == [k |-> "inf", s |-> sign, m |-> <<>>, e |-> 0]
DNaN == [k |-> "nan", s |-> 0, m |-> <<>>, e |-> 0]
DFin(sign, x, e) == [k |-> "fin", s |-> sign, m |-> x, e |-> e]

DIsZero(a) == a.k = "fin" /\ a.m = <<>>

\* x of SIGBITS or SIGBITS + 1 bits, brought back to SIGBITS
DRenorm[sign \in Int, x \in Limbs, e \in Int] ==
    IF BigBitLen[x] > SIGBITS THEN DFin(sign, BigShiftR[x, 1], e + 1)
    ELSE DFin(sign, x, e)

\* x of SIGBITS bits, rounded up or not: c compares the bits cut off with
\* half a unit; a tie goes up when the exact value lies above (sticky) or x
\* is odd.
DRoundUp[sign \in Int, x \in Limbs, e \in Int, c \in Int, sticky \in BOOLEAN] ==
    IF c > 0 \/ (c = 0 /\ (sticky \/ BigOdd(x)))
    THEN DRenorm[sign, BigMulAdd[x, 1, 1], e]
    ELSE DFin(sign, x, e)

DRoundLen[sign \in Int, x \in Limbs, e \in Int, sticky \in BOOLEAN, len \in Int] ==
    IF len <= SIGBITS
    THEN DFin(sign, BigShiftL[x, SIGBITS - len], e - (SIGBITS - len))
    ELSE DRoundUp[sign, BigShiftR[x, len - SIGBITS], e + (len - SIGBITS),
                  BigCmp[BigLowBits[x, len - SIGBITS],
                         BigShiftL[<<1>>, len - SIGBITS - 1]],
                  sticky]

\* The double nearest to x * 2^e (ties to even); sticky says that the exact
\* value lies strictly above x * 2^e, by less than one unit of x.
DRound[sign \in Int, x \in Limbs, e \in Int, sticky \in BOOLEAN] ==
    IF x = <<>> THEN DZero ELSE DRoundLen[sign, x, e, sticky, BigBitLen[x]]

\* int -> double (exact for every int)
DOfInt[n \in Int] ==
    DRound[IF n < 0 THEN 1 ELSE 0, BigOfNat[IF n < 0 THEN -n ELSE n], 0, FALSE]

DNeg[a \in Double] == IF a.k = "nan" \/ DIsZero(a) THEN a ELSE [a EXCEPT !.s = 1 - a.s]

\* fabs()
DAbs[a \in Double] == IF a.k = "nan" THEN a ELSE [a EXCEPT !.s = 0]

\* a * b
DMul[a \in Double, b \in Double] ==
    IF a.k = "nan" \/ b.k = "nan" THEN DNaN
    ELSE IF a.k = "inf" \/ b.k = "inf"
    THEN (IF DIsZero(a) \/ DIsZero(b) THEN DNaN ELSE DInf((a.s + b.s) % 2))
    ELSE IF DIsZero(a) \/ DIsZero(b) THEN DZero
    ELSE DRound[(a.s + b.s) % 2, BigMul[a.m, b.m], a.e + b.e, FALSE]

\* The quotient of significands x >= y or x < y, from the long division qr of
\* x - y or x by y
DDivRound[sign \in Int, qr \in Seq(Limbs), ge \in BOOLEAN, e \in Int] ==
    DRound[sign, BigNorm[qr[1] \o (IF ge THEN <<1>> ELSE <<>>)], e, qr[2] # <<>>]

DDivFin[a \in Double, b \in Double, ge \in BOOLEAN] ==
    DDivRound[(a.s + b.s) % 2,
              BigDivLimbs[IF ge THEN BigSub[a.m, b.m] ELSE a.m, b.m],
              ge, a.e - b.e - 5 * LIMBBITS]

\* a / b
DDiv[a \in Double, b \in Double] ==
    IF a.k = "nan" \/ b.k = "nan" THEN DNaN
    ELSE IF a.k = "inf" THEN (IF b.k = "inf" THEN DNaN ELSE DInf((a.s + b.s) % 2))
    ELSE IF b.k = "inf" THEN DZero
    ELSE IF DIsZero(b) THEN (IF DIsZero(a) THEN DNaN ELSE DInf((a.s + b.s) % 2))
    ELSE IF DIsZero(a) THEN DZero
    ELSE DDivFin[a, b, BigCmp[a.m, b.m] >= 0]

\* x * 2^e - y * 2^e for the magnitudes of operands of signs sa and sb
DSubAligned[sa \in Int, sb \in Int, x \in Limbs, y \in Limbs, e \in Int, c \in Int] ==
    IF sa # sb THEN DRound[sa, BigAdd[x, y], e, FALSE]
    ELSE IF c = 0 THEN DZero
    ELSE IF c > 0 THEN DRound[sa, BigSub[x, y], e, FALSE]
    ELSE DRound[1 - sa, BigSub[y, x], e, FALSE]

DSubFin[sa \in Int, sb \in Int, x \in Limbs, y \in Limbs, e \in Int] ==
    DSubAligned[sa, sb, x, y, e, BigCmp[x, y]]

\* a - b
DSub[a \in Double, b \in Double] ==
    IF a.k = "nan" \/ b.k = "nan" THEN DNaN
    ELSE IF a.k = "inf"
    THEN (IF b.k = "inf" /\ b.s = a.s THEN DNaN ELSE a)
    ELSE IF b.k = "inf" THEN DInf(1 - b.s)
    ELSE IF DIsZero(b) THEN a
    ELSE IF DIsZero(a) THEN DNeg[b]
    ELSE IF a.e - b.e > SIGBITS + 2 THEN a
    ELSE IF b.e - a.e > SIGBITS + 2 THEN DNeg[b]
    ELSE IF a.e < b.e
    THEN DSubFin[a.s, b.s, a.m, BigShiftL[b.m, b.e - a.e], a.e]
    ELSE DSubFin[a.s, b.s, BigShiftL[a.m, a.e - b.e], b.m, b.e]

\* a == b
DEq(a, b) == a.k # "nan" /\ b.k # "nan" /\ a = b

DIsNegative[a \in Double] == a.k # "nan" /\ ~DIsZero(a) /\ a.s = 1

\* a < b
DLess[a \in Double, b \in Double] ==
    IF a.k = "nan" \/ b.k = "nan" THEN FALSE
    ELSE IF a.k = "inf" THEN a.s = 1 /\ ~(b.k = "inf" /\ b.s = 1)
    ELSE IF b.k = "inf" THEN b.s = 0
    ELSE DIsNegative[DSub[a, b]]

\* a > b
DGreater[a \in Double, b \in Double] == DLess[b, a]

\* The magnitude of (int) a for a finite a: the cast rounds toward zero.
DTruncAbs[a \in Double] ==
    IF a.m = <<>> THEN 0
    ELSE IF a.e >= 0 THEN BigToNat[BigShiftL[a.m, a.e]]
    ELSE BigToNat[BigShiftR[a.m, -a.e]]

\* (int) a
DToInt[a \in Double] == IF a.s = 1 THEN -DTruncAbs[a] ELSE DTruncAbs[a]

---------------------------------------------------------------------------
(* The program's constants and the literals of its arithmetic.             *)

\* One retry more than the program's
MoreRetries == 5 + 1

NUM_MODBUS_RETRIES == 5
VFD_STOP == 0
VFD_CW == 1
VFD_CCW == 3

\* The double a decimal literal num/den denotes (both exact: the nearest
\* double to the quotient)
DLit(num, den) == DDiv[DOfInt[num], DOfInt[den]]

Lit_0_01  == DLit(1, 100)
Lit_0_1   == DLit(1, 10)
Lit_0_001 == DLit(1, 1000)
Lit_2_0   == DOfInt[2]
Lit_100   == DOfInt[100]
Lit_1     == DOfInt[1]

\* uint16_t x = n
U16(n) == n % 2^16

---------------------------------------------------------------------------
(* Bounds of the model and the values its environment supplies.            *)

\* Transport failures are possible while modbus_errors is below MaxErrors.
MaxErrors == 6

\* and, within one tick taken alone, above the 18 that three operations of
\* six failed attempts make
MaxTickErrors == 20

\* Register frames the drive answers a read with (receive_data[0..7]):
\* idle; running forward at 200 Hz; reversing and still at 0.58 Hz; stopped
\* with the direction bit left set; running with a fault bit.
Frames ==
    { <<0, 0, 0, 0, 0, 310, 0, 21>>,
      <<1, 20000, 20000, 25, 2200, 311, 40, 35>>,
      <<3, 20000, 58, 61, 15, 309, 75, 36>>,
      <<2, 58, 0, 0, 0, 312, 0, 30>>,
      <<9, 8333, 8333, 12, 917, 308, 20, 33>> }

\* What LinuxCNC drives the command pins with: <<spindle_on, spindle_fwd,
\* spindle_rev, speed_cmd>>.
Commands ==
    { <<0, 0, 0, DOfInt[0]>>, <<1, 1, 0, DOfInt[12000]>>,
      <<1, 0, 1, DOfInt[-5000]>>, <<0, 1, 0, DOfInt[35]>> }

\* What the user sets the parameters to: <<speed_tolerance, period>>.
Params == { <<Lit_0_01, Lit_0_1>>, <<DLit(1, 2), DOfInt[5]>> }

\* Arguments of -S and of -F: <<value, text left after the number>>.
NoArg == <<>>
SArgs == { <<24000, FALSE>>, <<0, FALSE>> }
FArgs == { <<400, FALSE>>, <<400, TRUE>>, <<-50, FALSE>> }

---------------------------------------------------------------------------
(* State.                                                                  *)

VARIABLES
    pc,                 \* where main() is
    done,               \* static int done
    retval,             \* main's retval (the exit status once pc = "exit")
    spindle_max_speed,  \* main's double spindle_max_speed
    max_freq,           \* main's double max_freq
    hzcalc,             \* main's double hzcalc
    haldata,            \* struct haldata, pins dereferenced
    retries,            \* int retries of the function being executed
    state,              \* uint16_t state of set_vfd_state
    freq,               \* uint16_t freq of set_vfd_freq
    rc,                 \* what the last function that returned, returned
    drive               \* registers 0x0900 and 0x0901 of a drive that echoes
                        \* what is written to it (SpecEcho only)

vars == <<pc, done, retval, spindle_max_speed, max_freq, hzcalc, haldata,
          retries, state, freq, rc, drive>>

\* HAL shared memory before main's defaults: every pin and parameter is 0.
HalZero ==
    [ inverter_status |-> 0, freq_cmd |-> DZero, output_freq |-> DZero,
      output_current |-> DZero, output_volt |-> DZero, dc_bus_volt |-> 0,
      motor_load |-> DZero, inverter_temp |-> 0, vfd_error |-> 0,
      at_speed |-> 0, is_stopped |-> 0, speed_fb |-> DZero,
      spindle_on |-> 0, spindle_fwd |-> 0, spindle_rev |-> 0,
      speed_cmd |-> DZero,
      speed_tolerance |-> DZero, period |-> DZero, modbus_errors |-> 0 ]

\* The drive's registers before anything is written: stopped, 0 Hz
DriveZero == [instruction |-> 0, frequency |-> 0]

\* main, lines 407-417
Init ==
    /\ pc = "options"
    /\ done = 0
    /\ retval = 0
    /\ spindle_max_speed = DOfInt[24000]
    /\ max_freq = DOfInt[400]
    /\ hzcalc = DZero
    /\ haldata = HalZero
    /\ retries = 0
    /\ state = 0
    /\ freq = 0
    /\ rc = 0
    /\ drive = DriveZero

---------------------------------------------------------------------------
(* main: command line, set-up, the polling loop.                           *)

\* OptValid with a defect: zero is accepted
OptValid_accepting_zero(arg) == ~arg[2] /\ ~(arg[1] < 0)

\* strtod's value and the validation of -S and -F (lines 488-505)
OptValid(arg) == ~arg[2] /\ ~(arg[1] <= 0)

\* lines 431-518: the options are processed in turn; the first invalid one
\* ends the program with retval -1, --help and an unknown option call exit().
\* An option that stands after --help or after an unknown option is never
\* parsed: an invalid -S or -F met together with them stood after them.
main_options ==
    /\ pc = "options"
    /\ \E sarg \in SArgs \cup {NoArg}, farg \in FArgs \cup {NoArg},
          other \in {"valid", "invalid", "help", "unknown"} :
          /\ spindle_max_speed' =
                IF sarg = NoArg \/ (other \in {"help", "unknown"} /\ ~OptValid(sarg))
                THEN spindle_max_speed ELSE DOfInt[sarg[1]]
          /\ max_freq' =
                IF farg = NoArg \/ (other \in {"help", "unknown"} /\ ~OptValid(farg))
                THEN max_freq ELSE DOfInt[farg[1]]
          /\ IF other = "help" THEN pc' = "exit" /\ retval' = 0
             ELSE IF other = "unknown" THEN pc' = "exit" /\ retval' = 1
             ELSE IF \/ other = "invalid"
                     \/ (sarg # NoArg /\ ~OptValid(sarg))
                     \/ (farg # NoArg /\ ~OptValid(farg))
             THEN pc' = "exit" /\ retval' = -1
             ELSE pc' = "setup" /\ retval' = retval
    /\ UNCHANGED <<drive, done, hzcalc, haldata, retries, state, freq, rc>>

\* lines 571-587
HalDefaults ==
    [ HalZero EXCEPT !.speed_tolerance = Lit_0_01, !.period = Lit_0_1 ]

\* lines 528-593: the signal handlers are installed (quit is enabled from
\* pc = "setup" on), then the Modbus context, the connection, the HAL
\* component, its memory and its pins; any failure leaves through the out_
\* labels, modbus_new_rtu's without setting retval.
main_setup ==
    /\ pc = "setup"
    /\ \E outcome \in {"ok", "modbus_new_rtu", "modbus_connect", "hal_init",
                       "hal_malloc", "hal_setup"} :
          IF outcome = "ok"
          THEN /\ haldata' = HalDefaults
               /\ hzcalc' = DDiv[max_freq, spindle_max_speed]
               /\ pc' = "loop"
               /\ retval' = 0
          ELSE /\ retval' = IF outcome = "modbus_new_rtu" THEN retval ELSE -1
               /\ pc' = "exit"
               /\ UNCHANGED <<drive, haldata, hzcalc>>
    /\ UNCHANGED <<drive, done, spindle_max_speed, max_freq, retries, state, freq, rc>>

\* lines 597-598
ClampPeriod(period) ==
    IF DLess[period, Lit_0_001] THEN Lit_0_001
    ELSE IF DGreater[period, Lit_2_0] THEN Lit_2_0
    ELSE period

\* Values of the period parameter for the clamp taken alone: inside the
\* range, on its ends, below, above, zero, negative, infinite, not a number
PeriodInputs ==
    { Lit_0_1, Lit_0_001, Lit_2_0, DOfInt[1], DLit(1, 10000), DLit(19, 10),
      DLit(21, 10), DOfInt[5], DZero, DOfInt[-1], DInf(0), DInf(1), DNaN }

Periods ==
    {Lit_0_1, Lit_0_001, Lit_2_0} \cup {par[2] : par \in Params} \cup PeriodInputs

ClampPeriodOf == [period \in Periods |-> ClampPeriod(period)]

\* lines 595-603: the loop test fails once done is set; otherwise the period
\* is clamped, the loop sleeps and calls read_data.
main_loop ==
    /\ pc = "loop"
    /\ IF done = 0
       THEN /\ haldata' = [haldata EXCEPT !.period = ClampPeriodOf[haldata.period]]
            /\ pc' = "read_data"
            /\ retval' = retval
       ELSE /\ retval' = 0
            /\ pc' = "exit"
            /\ haldata' = haldata
    /\ rc' = 0
    /\ UNCHANGED <<drive, done, spindle_max_speed, max_freq, hzcalc, retries, state, freq>>

\* lines 249-252, installed at lines 528-529
quit ==
    /\ pc \notin {"options", "exit"}
    /\ done' = 1
    /\ UNCHANGED <<drive, pc, retval, spindle_max_speed, max_freq, hzcalc, haldata,
                   retries, state, freq, rc>>

---------------------------------------------------------------------------
(* The pins and parameters other HAL components and the user write.        *)

\* The HAL_IN pins, lines 362-376
hal_write_command ==
    /\ pc \notin {"options", "setup", "exit"}
    /\ \E cmd \in Commands :
          haldata' = [haldata EXCEPT !.spindle_on = cmd[1], !.spindle_fwd = cmd[2],
                                     !.spindle_rev = cmd[3], !.speed_cmd = cmd[4]]
    /\ UNCHANGED <<drive, pc, done, retval, spindle_max_speed, max_freq, hzcalc,
                   retries, state, freq, rc>>

\* The HAL_RW parameters, lines 378-384
hal_write_param ==
    /\ pc \notin {"options", "setup", "exit"}
    /\ \E par \in Params :
          haldata' = [haldata EXCEPT !.speed_tolerance = par[1], !.period = par[2]]
    /\ UNCHANGED <<drive, pc, done, retval, spindle_max_speed, max_freq, hzcalc,
                   retries, state, freq, rc>>

---------------------------------------------------------------------------
(* read_data, lines 89-115.                                                *)

\* Snapshot with a defect: the current is scaled as the frequencies are
Snapshot_current_in_hundredths(receive_data) ==
    [ inverter_status |-> receive_data[1],
      freq_cmd        |-> DMul[DOfInt[receive_data[2]], Lit_0_01],
      output_freq     |-> DMul[DOfInt[receive_data[3]], Lit_0_01],
      output_current  |-> DMul[DOfInt[receive_data[4]], Lit_0_01],
      output_volt     |-> DMul[DOfInt[receive_data[5]], Lit_0_1],
      dc_bus_volt     |-> receive_data[6],
      motor_load      |-> DMul[DOfInt[receive_data[7]], Lit_0_1],
      inverter_temp   |-> receive_data[8] ]

\* lines 99-106: what a received frame is stored as
Snapshot(receive_data) ==
    [ inverter_status |-> receive_data[1],
      freq_cmd        |-> DMul[DOfInt[receive_data[2]], Lit_0_01],
      output_freq     |-> DMul[DOfInt[receive_data[3]], Lit_0_01],
      output_current  |-> DMul[DOfInt[receive_data[4]], Lit_0_1],
      output_volt     |-> DMul[DOfInt[receive_data[5]], Lit_0_1],
      dc_bus_volt     |-> receive_data[6],
      motor_load      |-> DMul[DOfInt[receive_data[7]], Lit_0_1],
      inverter_temp   |-> receive_data[8] ]

SnapshotOf == [f \in Frames |-> Snapshot(f)]

SnapshotFields ==
    { "inverter_status", "freq_cmd", "output_freq", "output_current",
      "output_volt", "dc_bus_volt", "motor_load", "inverter_temp" }

\* read_data_ok with a defect: a successful read also clears modbus_errors
read_data_ok_clearing_errors ==
    /\ pc = "read_data"
    /\ retries <= 5
    /\ \E f \in Frames :
          haldata' = [fld \in DOMAIN haldata |->
                         IF fld \in SnapshotFields THEN SnapshotOf[f][fld]
                         ELSE IF fld = "modbus_errors" THEN 0
                         ELSE haldata[fld]]
    /\ rc' = 0
    /\ retries' = 0
    /\ pc' = "set_vfd_state"
    /\ UNCHANGED <<drive, done, retval, spindle_max_speed, max_freq, hzcalc, state, freq>>

\* lines 94-108: an attempt that returns all eight registers stores them and
\* returns 0
read_data_ok ==
    /\ pc = "read_data"
    /\ retries <= NUM_MODBUS_RETRIES
    /\ \E f \in Frames :
          haldata' = [fld \in DOMAIN haldata |->
                         IF fld \in SnapshotFields THEN SnapshotOf[f][fld]
                         ELSE haldata[fld]]
    /\ rc' = 0
    /\ retries' = 0
    /\ pc' = "set_vfd_state"
    /\ UNCHANGED <<drive, done, retval, spindle_max_speed, max_freq, hzcalc, state, freq>>

\* read_data_fail with a defect: giving up, it zeroes the snapshot
read_data_fail_zeroing_snapshot ==
    /\ pc = "read_data"
    /\ retries <= 5
    /\ haldata.modbus_errors < MaxErrors
    /\ IF retries + 1 <= 5
       THEN /\ haldata' = [haldata EXCEPT !.modbus_errors = @ + 1]
            /\ retries' = retries + 1 /\ pc' = pc /\ rc' = rc
       ELSE /\ haldata' = [fld \in DOMAIN haldata |->
                              IF fld \in SnapshotFields THEN HalZero[fld]
                              ELSE IF fld = "modbus_errors" THEN haldata[fld] + 1
                              ELSE haldata[fld]]
            /\ retries' = 0 /\ pc' = "set_vfd_state" /\ rc' = -1
    /\ UNCHANGED <<drive, done, retval, spindle_max_speed, max_freq, hzcalc, state, freq>>

\* read_data_fail with a defect: giving up, it raises vfd_error
read_data_fail_flagging_error ==
    /\ pc = "read_data"
    /\ retries <= 5
    /\ haldata.modbus_errors < MaxErrors
    /\ IF retries + 1 <= 5
       THEN /\ haldata' = [haldata EXCEPT !.modbus_errors = @ + 1]
            /\ retries' = retries + 1 /\ pc' = pc /\ rc' = rc
       ELSE /\ haldata' = [haldata EXCEPT !.modbus_errors = @ + 1, !.vfd_error = 1]
            /\ retries' = 0 /\ pc' = "set_vfd_state" /\ rc' = -1
    /\ UNCHANGED <<drive, done, retval, spindle_max_speed, max_freq, hzcalc, state, freq>>

\* lines 94-114: a failed attempt counts an error; after the last retry
\* read_data returns -1
ReadDataFail(cap) ==
    /\ pc = "read_data"
    /\ retries <= NUM_MODBUS_RETRIES
    /\ haldata.modbus_errors < cap
    /\ haldata' = [haldata EXCEPT !.modbus_errors = @ + 1]
    /\ IF retries + 1 <= NUM_MODBUS_RETRIES
       THEN retries' = retries + 1 /\ pc' = pc /\ rc' = rc
       ELSE retries' = 0 /\ pc' = "set_vfd_state" /\ rc' = -1
    /\ UNCHANGED <<drive, done, retval, spindle_max_speed, max_freq, hzcalc, state, freq>>

\* modbus_errors is counted up to MaxErrors
read_data_fail == ReadDataFail(MaxErrors)

\* within one tick taken alone, up to MaxTickErrors
tick_read_data_fail == ReadDataFail(MaxTickErrors)

---------------------------------------------------------------------------
(* set_vfd_state, lines 128-154.                                           *)

NoState == -1

\* NewState with a defect: reverse is tested before forward
NewState_reverse_first(spindle_on, spindle_fwd, spindle_rev, inverter_status) ==
    IF spindle_on # 0 /\ spindle_rev # 0 /\ (inverter_status % 4) # 3
    THEN 3
    ELSE IF spindle_on # 0 /\ spindle_fwd # 0 /\ (inverter_status % 4) # 1
    THEN 1
    ELSE IF spindle_on = 0 /\ (inverter_status % 2) # 0
    THEN 0
    ELSE NoState

\* NewState with a defect: a disabled spindle is stopped whenever the
\* run/direction field is not 0, whatever the run bit
NewState_stop_by_field(spindle_on, spindle_fwd, spindle_rev, inverter_status) ==
    IF spindle_on # 0 /\ spindle_fwd # 0 /\ (inverter_status % 4) # 1
    THEN 1
    ELSE IF spindle_on # 0 /\ spindle_rev # 0 /\ (inverter_status % 4) # 3
    THEN 3
    ELSE IF spindle_on = 0 /\ (inverter_status % 4) # 0
    THEN 0
    ELSE NoState

\* NewState with a defect: the direction pins start the drive whether the
\* spindle is enabled or not
NewState_ignoring_enable(spindle_on, spindle_fwd, spindle_rev, inverter_status) ==
    IF spindle_fwd # 0 /\ (inverter_status % 4) # 1
    THEN 1
    ELSE IF spindle_rev # 0 /\ (inverter_status % 4) # 3
    THEN 3
    ELSE IF spindle_on = 0 /\ (inverter_status % 2) # 0
    THEN 0
    ELSE NoState

\* NewState with a defect: a running drive that reports a fault is stopped
NewState_stopping_on_fault(spindle_on, spindle_fwd, spindle_rev, inverter_status) ==
    IF ((inverter_status \div 8) % 4) # 0 /\ (inverter_status % 2) # 0
    THEN 0
    ELSE IF spindle_on # 0 /\ spindle_fwd # 0 /\ (inverter_status % 4) # 1
    THEN 1
    ELSE IF spindle_on # 0 /\ spindle_rev # 0 /\ (inverter_status % 4) # 3
    THEN 3
    ELSE IF spindle_on = 0 /\ (inverter_status % 2) # 0
    THEN 0
    ELSE NoState

\* lines 133-144: the state to write, NoState when no new state is requested
NewState(spindle_on, spindle_fwd, spindle_rev, inverter_status) ==
    IF spindle_on # 0 /\ spindle_fwd # 0 /\ (inverter_status % 4) # VFD_CW
    THEN VFD_CW
    ELSE IF spindle_on # 0 /\ spindle_rev # 0 /\ (inverter_status % 4) # VFD_CCW
    THEN VFD_CCW
    ELSE IF spindle_on = 0 /\ (inverter_status % 2) # VFD_STOP
    THEN VFD_STOP
    ELSE NoState

\* set_vfd_state with a defect: after a read that failed, the rest of the
\* iteration is dropped
set_vfd_state_returning_on_failed_read ==
    /\ pc = "set_vfd_state"
    /\ IF rc # 0
       THEN state' = 0 /\ rc' = rc /\ pc' = "loop"
       ELSE \E new \in {NewState(haldata.spindle_on, haldata.spindle_fwd,
                                 haldata.spindle_rev, haldata.inverter_status)} :
               IF new = NoState
               THEN state' = 0 /\ rc' = 0 /\ pc' = "set_vfd_freq"
               ELSE state' = new /\ rc' = rc /\ pc' = "state_write"
    /\ retries' = 0
    /\ UNCHANGED <<drive, done, retval, spindle_max_speed, max_freq, hzcalc, haldata, freq>>

\* set_vfd_state with a defect: once done is set the rest of the iteration
\* is dropped
set_vfd_state_leaving_when_done ==
    /\ pc = "set_vfd_state"
    /\ IF done # 0
       THEN state' = 0 /\ rc' = 0 /\ pc' = "loop"
       ELSE \E new \in {NewState(haldata.spindle_on, haldata.spindle_fwd,
                                 haldata.spindle_rev, haldata.inverter_status)} :
               IF new = NoState
               THEN state' = 0 /\ rc' = 0 /\ pc' = "set_vfd_freq"
               ELSE state' = new /\ rc' = rc /\ pc' = "state_write"
    /\ retries' = 0
    /\ UNCHANGED <<drive, done, retval, spindle_max_speed, max_freq, hzcalc, haldata, freq>>

\* lines 133-146: returns 0 without a write, or enters the write loop
set_vfd_state ==
    /\ pc = "set_vfd_state"
    /\ \E new \in {NewState(haldata.spindle_on, haldata.spindle_fwd,
                            haldata.spindle_rev, haldata.inverter_status)} :
          IF new = NoState
          THEN state' = 0 /\ rc' = 0 /\ pc' = "set_vfd_freq"
          ELSE state' = new /\ rc' = rc /\ pc' = "state_write"
    /\ retries' = 0
    /\ UNCHANGED <<drive, done, retval, spindle_max_speed, max_freq, hzcalc, haldata, freq>>

\* lines 146-148
set_vfd_state_ok ==
    /\ pc = "state_write"
    /\ retries <= NUM_MODBUS_RETRIES
    /\ rc' = 0
    /\ retries' = 0
    /\ state' = 0
    /\ pc' = "set_vfd_freq"
    /\ UNCHANGED <<drive, done, retval, spindle_max_speed, max_freq, hzcalc, haldata, freq>>

\* set_vfd_state_fail with a defect: the failed write is not counted
set_vfd_state_fail_uncounted ==
    /\ pc = "state_write"
    /\ retries <= 5
    /\ IF retries + 1 <= 5
       THEN retries' = retries + 1 /\ pc' = pc /\ rc' = rc /\ state' = state
       ELSE retries' = 0 /\ pc' = "set_vfd_freq" /\ rc' = -1 /\ state' = 0
    /\ UNCHANGED <<drive, done, retval, spindle_max_speed, max_freq, hzcalc, freq, haldata>>

\* SetVfdStateFail with a defect: a failed write is counted twice
SetVfdStateFail_counting_twice(cap) ==
    /\ pc = "state_write"
    /\ retries <= 5
    /\ haldata.modbus_errors < cap
    /\ haldata' = [haldata EXCEPT !.modbus_errors = @ + 2]
    /\ IF retries + 1 <= 5
       THEN retries' = retries + 1 /\ pc' = pc /\ rc' = rc /\ state' = state
       ELSE retries' = 0 /\ pc' = "set_vfd_freq" /\ rc' = -1 /\ state' = 0
    /\ UNCHANGED <<drive, done, retval, spindle_max_speed, max_freq, hzcalc, freq>>

\* lines 146-153
SetVfdStateFail(cap) ==
    /\ pc = "state_write"
    /\ retries <= NUM_MODBUS_RETRIES
    /\ haldata.modbus_errors < cap
    /\ haldata' = [haldata EXCEPT !.modbus_errors = @ + 1]
    /\ IF retries + 1 <= NUM_MODBUS_RETRIES
       THEN retries' = retries + 1 /\ pc' = pc /\ rc' = rc /\ state' = state
       ELSE retries' = 0 /\ pc' = "set_vfd_freq" /\ rc' = -1 /\ state' = 0
    /\ UNCHANGED <<drive, done, retval, spindle_max_speed, max_freq, hzcalc, freq>>

set_vfd_state_fail == SetVfdStateFail(MaxErrors)

tick_set_vfd_state_fail == SetVfdStateFail(MaxTickErrors)

---------------------------------------------------------------------------
(* set_vfd_freq, lines 172-197.                                            *)

\* Inputs of set_vfd_freq taken alone: speed commands, <<spindle_max_speed,
\* max_freq>> configurations, output frequency registers.
SpeedInputs ==
    { 0, 35, -35, 69, 5000, -5000, 12000, -12000, 24000, 30000, 39382, -39382 }
ConfigInputs == { <<24000, 400>>, <<1500, 50>> }
OutputInputs == { 0, 57, 58, 100, 201, 5000, 8333, 20000, 40000 }

\* lines 182-183
FreqCap[word \in Int, cap \in Double] ==
    IF DGreater[DOfInt[word], cap] THEN U16(DToInt[cap]) ELSE word

\* FreqWord with a defect: the word is not capped
FreqWord_uncapped(speed_cmd, freq_calc, mf) ==
    U16(DTruncAbs[DMul[DMul[speed_cmd, freq_calc], Lit_100]])

\* lines 179-183: the frequency word for a speed command
FreqWord(speed_cmd, freq_calc, mf) ==
    FreqCap[U16(DTruncAbs[DMul[DMul[speed_cmd, freq_calc], Lit_100]]),
            DMul[mf, Lit_100]]

\* line 186: (int) (*haldata->output_freq * 100)
OutputWord(output_freq) == DToInt[DMul[output_freq, Lit_100]]

SpeedCmds == {DOfInt[n] : n \in SpeedInputs} \cup {cmd[4] : cmd \in Commands}
Configs == {<<DOfInt[c[1]], DOfInt[c[2]]>> : c \in ConfigInputs}
OutputFreqs ==
    {DMul[DOfInt[n], Lit_0_01] : n \in OutputInputs}
    \cup {SnapshotOf[f].output_freq : f \in Frames} \cup {DZero}

FreqWordOf ==
    [x \in {<<v, DDiv[c[2], c[1]], c[2]>> : v \in SpeedCmds, c \in Configs} |->
        FreqWord(x[1], x[2], x[3])]

OutputWordOf == [x \in OutputFreqs |-> OutputWord(x)]

\* set_vfd_freq with a defect: the magnitude is stored in speed_cmd
set_vfd_freq_storing_magnitude ==
    /\ pc = "set_vfd_freq"
    /\ \E word \in {FreqWordOf[<<haldata.speed_cmd, hzcalc, max_freq>>]} :
          IF word = OutputWordOf[haldata.output_freq]
          THEN freq' = 0 /\ rc' = 0 /\ pc' = "write_data"
          ELSE freq' = word /\ rc' = rc /\ pc' = "freq_write"
    /\ haldata' = [haldata EXCEPT !.speed_cmd = DAbs[@]]
    /\ retries' = 0
    /\ UNCHANGED <<drive, done, retval, spindle_max_speed, max_freq, hzcalc, state>>

\* set_vfd_freq with a defect: once an operation has failed, the frequency
\* is no longer written
set_vfd_freq_giving_up ==
    /\ pc = "set_vfd_freq"
    /\ \E word \in {FreqWordOf[<<haldata.speed_cmd, hzcalc, max_freq>>]} :
          IF word = OutputWordOf[haldata.output_freq] \/ haldata.modbus_errors > 0
          THEN freq' = 0 /\ rc' = 0 /\ pc' = "write_data"
          ELSE freq' = word /\ rc' = rc /\ pc' = "freq_write"
    /\ retries' = 0
    /\ UNCHANGED <<drive, done, retval, spindle_max_speed, max_freq, hzcalc, haldata, state>>

\* lines 179-189: returns 0 without a write, or enters the write loop
set_vfd_freq ==
    /\ pc = "set_vfd_freq"
    /\ \E word \in {FreqWordOf[<<haldata.speed_cmd, hzcalc, max_freq>>]} :
          IF word = OutputWordOf[haldata.output_freq]
          THEN freq' = 0 /\ rc' = 0 /\ pc' = "write_data"
          ELSE freq' = word /\ rc' = rc /\ pc' = "freq_write"
    /\ retries' = 0
    /\ UNCHANGED <<drive, done, retval, spindle_max_speed, max_freq, hzcalc, haldata, state>>

\* set_vfd_freq_ok with a defect: the state is decided after the frequency
\* write
set_vfd_freq_ok_then_state ==
    /\ pc = "freq_write"
    /\ retries <= 5
    /\ rc' = 0
    /\ retries' = 0
    /\ freq' = 0
    /\ pc' = "set_vfd_state"
    /\ UNCHANGED <<drive, done, retval, spindle_max_speed, max_freq, hzcalc, haldata, state>>

\* lines 189-191
set_vfd_freq_ok ==
    /\ pc = "freq_write"
    /\ retries <= NUM_MODBUS_RETRIES
    /\ rc' = 0
    /\ retries' = 0
    /\ freq' = 0
    /\ pc' = "write_data"
    /\ UNCHANGED <<drive, done, retval, spindle_max_speed, max_freq, hzcalc, haldata, state>>

\* lines 189-196
SetVfdFreqFail(cap) ==
    /\ pc = "freq_write"
    /\ retries <= NUM_MODBUS_RETRIES
    /\ haldata.modbus_errors < cap
    /\ haldata' = [haldata EXCEPT !.modbus_errors = @ + 1]
    /\ IF retries + 1 <= NUM_MODBUS_RETRIES
       THEN retries' = retries + 1 /\ pc' = pc /\ rc' = rc /\ freq' = freq
       ELSE retries' = 0 /\ pc' = "write_data" /\ rc' = -1 /\ freq' = 0
    /\ UNCHANGED <<drive, done, retval, spindle_max_speed, max_freq, hzcalc, state>>

set_vfd_freq_fail == SetVfdFreqFail(MaxErrors)

tick_set_vfd_freq_fail == SetVfdFreqFail(MaxTickErrors)

---------------------------------------------------------------------------
(* write_data, lines 200-226, after the two calls.                         *)

\* IsStopped with a defect: anything below 1 Hz counts as stopped
IsStopped_below_one_hertz(output_freq) == IF DLess[output_freq, Lit_1] THEN 1 ELSE 0

\* lines 206-210
IsStopped(output_freq) == IF DEq(output_freq, DZero) THEN 1 ELSE 0

\* SpeedFb with a defect: the frequency is multiplied by the scale
SpeedFb_times_scale(output_freq, freq_calc) == DMul[output_freq, freq_calc]

\* line 212
SpeedFb(output_freq, freq_calc) == DDiv[output_freq, freq_calc]

\* WithinTolerance with a defect: a zero output_freq counts as on target
WithinTolerance_zero_on_target(freq_cmd, output_freq, speed_tolerance) ==
    IF DIsZero(output_freq) THEN 1
    ELSE IF DLess[DAbs[DSub[Lit_1, DDiv[freq_cmd, output_freq]]], speed_tolerance]
    THEN 1 ELSE 0

\* WithinTolerance with a defect: a deviation equal to the tolerance counts
\* as on target
WithinTolerance_inclusive(freq_cmd, output_freq, speed_tolerance) ==
    IF \/ DLess[DAbs[DSub[Lit_1, DDiv[freq_cmd, output_freq]]], speed_tolerance]
       \/ DEq(DAbs[DSub[Lit_1, DDiv[freq_cmd, output_freq]]], speed_tolerance)
    THEN 1 ELSE 0

\* lines 215-219
WithinTolerance(freq_cmd, output_freq, speed_tolerance) ==
    IF DLess[DAbs[DSub[Lit_1, DDiv[freq_cmd, output_freq]]], speed_tolerance]
    THEN 1 ELSE 0

\* A drive that echoes: its status reports the last word written to
\* register 0x0900, its frequency registers the last word written to 0x0901.
\* EchoSpeedInputs are the speed commands it is run with.
EchoSpeedInputs == { 0, 35, -5000, 12000, 30000 }

EchoWords ==
    {FreqWordOf[<<DOfInt[n], DDiv[DOfInt[400], DOfInt[24000]], DOfInt[400]>>] :
        n \in EchoSpeedInputs} \cup {0}

Drives ==
    {[instruction |-> i, frequency |-> w] : i \in {0, 1, 2, 3}, w \in EchoWords}

EchoFrame(d) == <<d.instruction, d.frequency, d.frequency, 0, 0, 310, 0, 21>>

EchoSnapshotOf == [d \in Drives |-> Snapshot(EchoFrame(d))]

\* Frequency registers for the status outputs taken alone: 100.00 Hz with
\* 99.50, 99.00 and 101.00 Hz about it, and its half
StatusInputs == { 10000, 9950, 9900, 10100, 5000 }

\* What the drive reports after each frequency word set_vfd_freq can write
WrittenFreqs == {DMul[DOfInt[FreqWordOf[x]], Lit_0_01] : x \in DOMAIN FreqWordOf}

SnapshotFreqs ==
    {SnapshotOf[f].freq_cmd : f \in Frames}
    \cup {SnapshotOf[f].output_freq : f \in Frames} \cup {DZero}
    \cup {EchoSnapshotOf[d].output_freq : d \in Drives}
    \cup {DMul[DOfInt[n], Lit_0_01] : n \in StatusInputs}

Tolerances == {Lit_0_01} \cup {par[1] : par \in Params}

SpeedFbOf ==
    [x \in {<<v, DDiv[c[2], c[1]]>> : v \in SnapshotFreqs \cup WrittenFreqs,
                                       c \in Configs} |->
        SpeedFb(x[1], x[2])]

WithinToleranceOf ==
    [x \in (SnapshotFreqs \X SnapshotFreqs \X Tolerances)
            \cup {<<w, w, t>> : w \in WrittenFreqs, t \in Tolerances} |->
        WithinTolerance(x[1], x[2], x[3])]

\* AtSpeed with a defect: spindle_on is not looked at
AtSpeed_whether_on_or_off(h) ==
    WithinToleranceOf[<<h.freq_cmd, h.output_freq, h.speed_tolerance>>]

\* lines 215-222
AtSpeed(h) ==
    IF h.spindle_on = 0 THEN 0
    ELSE WithinToleranceOf[<<h.freq_cmd, h.output_freq, h.speed_tolerance>>]

\* VfdError with a defect: the flag follows the status bits
VfdError_following_status(h) == IF ((h.inverter_status \div 8) % 4) # 0 THEN 1 ELSE 0

\* lines 224-225
VfdError(h) == IF ((h.inverter_status \div 8) % 4) # 0 THEN 1 ELSE h.vfd_error

\* lines 206-225, then back to the loop test of line 595
write_data ==
    /\ pc = "write_data"
    /\ haldata' = [haldata EXCEPT
                       !.is_stopped = IsStopped(haldata.output_freq),
                       !.speed_fb = SpeedFbOf[<<haldata.output_freq, hzcalc>>],
                       !.at_speed = AtSpeed(haldata),
                       !.vfd_error = VfdError(haldata)]
    /\ pc' = "loop"
    /\ UNCHANGED <<drive, done, retval, spindle_max_speed, max_freq, hzcalc,
                   retries, state, freq, rc>>

---------------------------------------------------------------------------
(* The program with its environment.                                       *)

Next ==
    \/ main_options
    \/ main_setup
    \/ main_loop
    \/ quit
    \/ hal_write_command
    \/ hal_write_param
    \/ read_data_ok
    \/ read_data_fail
    \/ set_vfd_state
    \/ set_vfd_state_ok
    \/ set_vfd_state_fail
    \/ set_vfd_freq
    \/ set_vfd_freq_ok
    \/ set_vfd_freq_fail
    \/ write_data

Spec == Init /\ [][Next]_vars
---------------------------------------------------------------------------
(* set_vfd_state taken alone: called with every combination of the command *)
(* pins and every inverter_status up to MaxStatus, after a read that       *)
(* succeeded or failed.                                                    *)

MaxStatus == 31

InitState ==
    /\ pc = "set_vfd_state"
    /\ done = 0
    /\ retval = 0
    /\ spindle_max_speed = DOfInt[24000]
    /\ max_freq = DOfInt[400]
    /\ hzcalc = DDiv[DOfInt[400], DOfInt[24000]]
    /\ \E on \in {0, 1}, fwd \in {0, 1}, rev \in {0, 1}, status \in 0..MaxStatus :
          haldata = [HalDefaults EXCEPT !.spindle_on = on, !.spindle_fwd = fwd,
                                        !.spindle_rev = rev,
                                        !.inverter_status = status]
    /\ retries = 0
    /\ state = 0
    /\ freq = 0
    /\ rc \in {0, -1}
    /\ drive = DriveZero

NextState ==
    \/ set_vfd_state
    \/ set_vfd_state_ok
    \/ set_vfd_state_fail

SpecState == InitState /\ [][NextState]_vars

---------------------------------------------------------------------------
(* set_vfd_freq taken alone: called with every speed command of            *)
(* SpeedInputs, configuration of ConfigInputs and output frequency of      *)
(* OutputInputs, with the spindle on or off, after a state write that      *)
(* succeeded or failed.                                                    *)

InitFreq ==
    /\ pc = "set_vfd_freq"
    /\ done = 0
    /\ retval = 0
    /\ \E c \in Configs :
          /\ spindle_max_speed = c[1]
          /\ max_freq = c[2]
          /\ hzcalc = DDiv[c[2], c[1]]
    /\ \E v \in SpeedCmds, n \in OutputInputs, on \in {0, 1} :
          haldata = [HalDefaults EXCEPT !.speed_cmd = v,
                                        !.output_freq = DMul[DOfInt[n], Lit_0_01],
                                        !.inverter_status = on,
                                        !.spindle_on = on, !.spindle_fwd = on]
    /\ retries = 0
    /\ state = 0
    /\ freq = 0
    /\ rc \in {0, -1}
    /\ drive = DriveZero

NextFreq ==
    \/ set_vfd_freq
    \/ set_vfd_freq_ok
    \/ set_vfd_freq_fail

SpecFreq == InitFreq /\ [][NextFreq]_vars


---------------------------------------------------------------------------
(* The loop test and the period clamp taken alone: the top of an iteration *)
(* with every period of PeriodInputs in the parameter, any command, any    *)
(* snapshot, done set or not.                                              *)

InitPeriod ==
    /\ pc = "loop"
    /\ done \in {0, 1}
    /\ retval = 0
    /\ spindle_max_speed = DOfInt[24000]
    /\ max_freq = DOfInt[400]
    /\ hzcalc = DDiv[DOfInt[400], DOfInt[24000]]
    /\ \E period \in PeriodInputs, cmd \in Commands, f \in Frames :
          haldata = [fld \in DOMAIN HalDefaults |->
                        IF fld \in SnapshotFields THEN SnapshotOf[f][fld]
                        ELSE IF fld = "period" THEN period
                        ELSE IF fld = "spindle_on" THEN cmd[1]
                        ELSE IF fld = "spindle_fwd" THEN cmd[2]
                        ELSE IF fld = "spindle_rev" THEN cmd[3]
                        ELSE IF fld = "speed_cmd" THEN cmd[4]
                        ELSE HalDefaults[fld]]
    /\ retries = 0
    /\ state = 0
    /\ freq = 0
    /\ rc \in {0, -1}
    /\ drive = DriveZero

NextPeriod == main_loop

SpecPeriod == InitPeriod /\ [][NextPeriod]_vars

---------------------------------------------------------------------------
(* The loop against a drive that echoes, with a command that is held and   *)
(* every transport operation succeeding: the snapshot of a tick reports    *)
(* the last state word written in the low two status bits and the last     *)
(* frequency word written as commanded and output frequency.               *)

\* read_data, lines 94-107, the registers being those of the echoing drive
echo_read_data ==
    /\ pc = "read_data"
    /\ retries <= NUM_MODBUS_RETRIES
    /\ \E snapshot \in {EchoSnapshotOf[drive]} :
          haldata' = [fld \in DOMAIN haldata |->
                         IF fld \in SnapshotFields THEN snapshot[fld]
                         ELSE haldata[fld]]
    /\ rc' = 0
    /\ retries' = 0
    /\ pc' = "set_vfd_state"
    /\ UNCHANGED <<drive, done, retval, spindle_max_speed, max_freq, hzcalc,
                   state, freq>>

\* set_vfd_state, lines 146-148, the word landing in register 0x0900
echo_set_vfd_state_ok ==
    /\ pc = "state_write"
    /\ retries <= NUM_MODBUS_RETRIES
    /\ drive' = [drive EXCEPT !.instruction = state]
    /\ rc' = 0
    /\ retries' = 0
    /\ state' = 0
    /\ pc' = "set_vfd_freq"
    /\ UNCHANGED <<done, retval, spindle_max_speed, max_freq, hzcalc, haldata, freq>>

\* set_vfd_freq, lines 189-191, the word landing in register 0x0901
echo_set_vfd_freq_ok ==
    /\ pc = "freq_write"
    /\ retries <= NUM_MODBUS_RETRIES
    /\ drive' = [drive EXCEPT !.frequency = freq]
    /\ rc' = 0
    /\ retries' = 0
    /\ freq' = 0
    /\ pc' = "write_data"
    /\ UNCHANGED <<done, retval, spindle_max_speed, max_freq, hzcalc, haldata, state>>

InitEcho ==
    /\ pc = "loop"
    /\ done = 0
    /\ retval = 0
    /\ spindle_max_speed = DOfInt[24000]
    /\ max_freq = DOfInt[400]
    /\ hzcalc = DDiv[DOfInt[400], DOfInt[24000]]
    /\ \E on \in {0, 1}, fwd \in {0, 1}, rev \in {0, 1}, n \in EchoSpeedInputs :
          haldata = [HalDefaults EXCEPT !.spindle_on = on, !.spindle_fwd = fwd,
                                        !.spindle_rev = rev,
                                        !.speed_cmd = DOfInt[n]]
    /\ retries = 0
    /\ state = 0
    /\ freq = 0
    /\ rc = 0
    /\ \E i \in {0, 1, 2, 3} : drive = [instruction |-> i, frequency |-> 0]

NextEcho ==
    \/ main_loop
    \/ echo_read_data
    \/ set_vfd_state
    \/ echo_set_vfd_state_ok
    \/ set_vfd_freq
    \/ echo_set_vfd_freq_ok
    \/ write_data

\* Every call returns: the loop keeps taking steps
SpecEcho == InitEcho /\ [][NextEcho]_vars /\ WF_vars(NextEcho)

---------------------------------------------------------------------------
(* The loop and its cancellation taken alone: the loop is entered with any *)
(* command on the pins, quit may run at any moment, and every library call *)
(* returns (the sleep and every transport call), so that the program is    *)
(* never stopped for ever short of its exit.                               *)

InitCancel ==
    /\ pc = "loop"
    /\ done = 0
    /\ retval = 0
    /\ spindle_max_speed = DOfInt[24000]
    /\ max_freq = DOfInt[400]
    /\ hzcalc = DDiv[DOfInt[400], DOfInt[24000]]
    /\ \E cmd \in Commands :
          haldata = [HalDefaults EXCEPT !.spindle_on = cmd[1], !.spindle_fwd = cmd[2],
                                        !.spindle_rev = cmd[3], !.speed_cmd = cmd[4]]
    /\ retries = 0
    /\ state = 0
    /\ freq = 0
    /\ rc = 0
    /\ drive = DriveZero

\* The steps of the loop, as against quit
LoopStep ==
    \/ main_loop
    \/ read_data_ok
    \/ read_data_fail
    \/ set_vfd_state
    \/ set_vfd_state_ok
    \/ set_vfd_state_fail
    \/ set_vfd_freq
    \/ set_vfd_freq_ok
    \/ set_vfd_freq_fail
    \/ write_data

NextCancel ==
    \/ quit
    \/ main_loop
    \/ read_data_ok
    \/ read_data_fail
    \/ set_vfd_state
    \/ set_vfd_state_ok
    \/ set_vfd_state_fail
    \/ set_vfd_freq
    \/ set_vfd_freq_ok
    \/ set_vfd_freq_fail
    \/ write_data

SpecCancel == InitCancel /\ [][NextCancel]_vars /\ WF_vars(LoopStep)

----------------------------------------------------------------------------
(* One iteration of the loop taken alone, lines 603-604: read_data, then   *)
(* write_data with its two calls.  It begins with modbus_errors at 0, the  *)
(* command pins at TickCommand and the snapshot of an earlier read; the    *)
(* command pins are written by other HAL components while it runs.         *)

\* The command pins as the iteration begins: on, forward, 12000 rpm
TickCommand == <<1, 1, 0, DOfInt[12000]>>

InitTick ==
    /\ pc = "read_data"
    /\ done = 0
    /\ retval = 0
    /\ spindle_max_speed = DOfInt[24000]
    /\ max_freq = DOfInt[400]
    /\ hzcalc = DDiv[DOfInt[400], DOfInt[24000]]
    /\ \E f \in Frames :
          haldata = [fld \in DOMAIN HalDefaults |->
                        IF fld \in SnapshotFields THEN SnapshotOf[f][fld]
                        ELSE IF fld = "spindle_on" THEN TickCommand[1]
                        ELSE IF fld = "spindle_fwd" THEN TickCommand[2]
                        ELSE IF fld = "spindle_rev" THEN TickCommand[3]
                        ELSE IF fld = "speed_cmd" THEN TickCommand[4]
                        ELSE HalDefaults[fld]]
    /\ retries = 0
    /\ state = 0
    /\ freq = 0
    /\ rc = 0
    /\ drive = DriveZero

NextTick ==
    \/ hal_write_command
    \/ read_data_ok
    \/ tick_read_data_fail
    \/ set_vfd_state
    \/ set_vfd_state_ok
    \/ tick_set_vfd_state_fail
    \/ set_vfd_freq
    \/ set_vfd_freq_ok
    \/ tick_set_vfd_freq_fail
    \/ write_data

SpecTick == InitTick /\ [][NextTick]_vars

----------------------------------------------------------------------------
(* The status outputs of write_data taken alone, lines 206-225: computed   *)
(* with the spindle on or off, with every tolerance of Tolerances, either  *)
(* from every pair of frequencies of SnapshotFreqs or, for every speed     *)
(* command and configuration, from the frequency the drive reports once    *)
(* the word for that command is written.                                   *)

InitStatus ==
    /\ pc = "write_data"
    /\ done = 0
    /\ retval = 0
    /\ \E c \in Configs :
          /\ spindle_max_speed = c[1]
          /\ max_freq = c[2]
          /\ hzcalc = DDiv[c[2], c[1]]
          /\ \E on \in {0, 1}, tol \in Tolerances, status \in {1, 9} :
                \/ \E fc \in SnapshotFreqs, fo \in SnapshotFreqs :
                      haldata = [HalDefaults EXCEPT !.spindle_on = on,
                                                    !.speed_tolerance = tol,
                                                    !.inverter_status = status,
                                                    !.freq_cmd = fc,
                                                    !.output_freq = fo]
                \/ \E v \in SpeedCmds :
                      \E w \in {DMul[DOfInt[FreqWordOf[<<v, DDiv[c[2], c[1]], c[2]>>]],
                                     Lit_0_01]} :
                         haldata = [HalDefaults EXCEPT !.spindle_on = on,
                                                       !.speed_tolerance = tol,
                                                       !.inverter_status = status,
                                                       !.speed_cmd = v,
                                                       !.freq_cmd = w,
                                                       !.output_freq = w]
    /\ retries = 0
    /\ state = 0
    /\ freq = 0
    /\ rc \in {0, -1}
    /\ drive = DriveZero

NextStatus == write_data

SpecStatus == InitStatus /\ [][NextStatus]_vars
---------------------------------------------------------------------------
(* Properties.                                                             *)

\* Where the three retry loops make their transport calls
AttemptPcs == {"read_data", "state_write", "freq_write"}

\* C1: each of the three register operations makes at most 6 attempts per
\* invocation, returns at the first successful attempt, and returns -1 only
\* at its sixth consecutive failed attempt.  Every step of the program
\* inside a retry loop is one attempt, and it is one of: a failed attempt
\* that is counted and retried, retries going up by one and staying at most
\* 5; the sixth failed attempt, returning -1; a successful attempt,
\* returning 0 at once.  retries bounds the loop, so it terminates.
C1_RetryBudget ==
    [][ (/\ pc \in AttemptPcs
         /\ (pc' # pc \/ retries' # retries
                \/ haldata'.modbus_errors # haldata.modbus_errors))
        => /\ retries + 1 <= 6
           /\ \/ /\ haldata'.modbus_errors = haldata.modbus_errors + 1
                 /\ pc' = pc
                 /\ retries' = retries + 1
                 /\ retries' + 1 <= 6
              \/ /\ haldata'.modbus_errors = haldata.modbus_errors + 1
                 /\ pc' # pc
                 /\ rc' = -1
                 /\ retries + 1 = 6
              \/ /\ haldata'.modbus_errors = haldata.modbus_errors
                 /\ pc' # pc
                 /\ rc' = 0 ]_vars

\* read_data has returned -1, after six failed attempts
C1_Witness ==
    pc = "set_vfd_state" /\ rc = -1 /\ haldata.modbus_errors >= 6

\* A failed attempt: a step inside a retry loop that retries or gives up
FailedAttempt ==
    /\ pc \in AttemptPcs
    /\ \/ pc' = pc /\ retries' = retries + 1
       \/ pc' # pc /\ rc' = -1

\* C2: modbus_errors goes up by one in every failed attempt of the read, the
\* state write and the frequency write, retried and final alike, and stays
\* as it is in every other step (a successful attempt, a skipped write,
\* the rest of the tick): over a tick it increases by exactly the number
\* of failed attempts made in that tick.
C2_ErrorsCountFailedAttempts ==
    [][ pc \notin {"options", "setup"}
        => haldata'.modbus_errors =
              haldata.modbus_errors + (IF FailedAttempt THEN 1 ELSE 0) ]_vars

\* set_vfd_freq has given up in a tick: its six failed attempts are counted
C2_Witness ==
    pc = "write_data" /\ rc = -1 /\ haldata.modbus_errors >= 6

\* C3: modbus_errors is 0 when the loop is entered and no step decreases it.
C3_ErrorsMonotonic ==
    [][ /\ haldata'.modbus_errors >= haldata.modbus_errors
        /\ (pc = "setup" /\ pc' = "loop") => haldata'.modbus_errors = 0 ]_vars

\* A read succeeds after errors have been counted, and the count is kept
C3_Witness ==
    /\ pc = "set_vfd_state"
    /\ rc = 0
    /\ haldata.inverter_status # 0
    /\ haldata.modbus_errors > 0

\* The eight fields read_data stores
SnapshotPart(h) == [fld \in SnapshotFields |-> h[fld]]

\* C4: no step of read_data other than its successful return changes any of
\* the eight snapshot fields, and read_data returns -1 when it returns
\* otherwise: a read that fails after its retries leaves the snapshot as it
\* was before the call and reports the error.
C4_FailedReadKeepsSnapshot ==
    [][ (pc = "read_data" /\ ~(pc' = "set_vfd_state" /\ rc' = 0))
        => /\ SnapshotPart(haldata') = SnapshotPart(haldata)
           /\ pc' # pc => rc' = -1 ]_vars

\* read_data has returned -1 and the snapshot of an earlier read is there
C4_Witness ==
    /\ pc = "set_vfd_state"
    /\ rc = -1
    /\ haldata.inverter_status = 9
    /\ haldata.output_freq # DZero
    /\ haldata.dc_bus_volt # 0

\* C5: set_vfd_state chooses by the prioritized rule, for every combination
\* of spindle_on, spindle_fwd, spindle_rev and inverter_status: on and fwd
\* and (status & 3) # 1 writes 1; else on and rev and (status & 3) # 3
\* writes 3; else not on and (status & 1) # 0 writes 0; else nothing is
\* written.  The word in the write loop is 0, 1 or 3.
C5_StateRule ==
    [][ /\ (pc = "set_vfd_state" /\ pc' # pc)
           => IF /\ haldata.spindle_on = 1 /\ haldata.spindle_fwd = 1
                 /\ haldata.inverter_status % 4 # 1
              THEN pc' = "state_write" /\ state' = 1
              ELSE IF /\ haldata.spindle_on = 1 /\ haldata.spindle_rev = 1
                      /\ haldata.inverter_status % 4 # 3
              THEN pc' = "state_write" /\ state' = 3
              ELSE IF haldata.spindle_on = 0 /\ haldata.inverter_status % 2 # 0
              THEN pc' = "state_write" /\ state' = 0
              ELSE pc' = "set_vfd_freq"
        /\ pc' = "state_write" => state' \in {0, 1, 3} ]_vars

\* The second case decides: forward and reverse are both set and the drive
\* already runs forward, so reverse is written
C5_Witness ==
    /\ pc = "state_write"
    /\ state = 3
    /\ haldata.spindle_on = 1 /\ haldata.spindle_fwd = 1 /\ haldata.spindle_rev = 1
    /\ haldata.inverter_status % 4 = 1

\* C6 as stated: the state write is skipped exactly when the observed
\* run/direction field (inverter_status & 3) equals the target of the
\* command: 1 when enabled and forward, 3 when enabled and reverse, 0 when
\* not enabled.
C6_SkipIffFieldIsTarget ==
    [][ (/\ pc = "set_vfd_state" /\ pc' # pc
         /\ (haldata.spindle_on = 0 \/ haldata.spindle_fwd = 1
                \/ haldata.spindle_rev = 1))
        => (pc' = "set_vfd_freq"
              <=> haldata.inverter_status % 4 =
                     (IF haldata.spindle_on = 0 THEN 0
                      ELSE IF haldata.spindle_fwd = 1 THEN 1 ELSE 3)) ]_vars

\* C6, amended: the state write is skipped exactly when none of the three
\* cases of the rule applies.  With the spindle enabled that is: forward is
\* off or the field is 1, and reverse is off or the field is 3.  With the
\* spindle disabled it is: the run bit (inverter_status & 1) is 0, whatever
\* the direction bit.
C6_SkipIffNoCaseApplies ==
    [][ (pc = "set_vfd_state" /\ pc' # pc)
        => (pc' = "set_vfd_freq"
              <=> IF haldata.spindle_on = 1
                  THEN /\ haldata.spindle_fwd = 0 \/ haldata.inverter_status % 4 = 1
                       /\ haldata.spindle_rev = 0 \/ haldata.inverter_status % 4 = 3
                  ELSE haldata.inverter_status % 2 = 0) ]_vars

\* The spindle is disabled, the observed field is 2, and set_vfd_state has
\* returned without a write
C6_Witness ==
    /\ pc = "set_vfd_freq"
    /\ haldata.spindle_on = 0
    /\ haldata.inverter_status % 4 = 2

\* The claimed register value: min(trunc(|speed| * (max_freq /
\* spindle_max_speed) * 100), max_freq * 100)
ClaimedMin[t \in Int, cap \in Int] == IF t < cap THEN t ELSE cap

ClaimedWord(speed_cmd, sms, mf) ==
    ClaimedMin[DTruncAbs[DMul[DMul[DAbs[speed_cmd], DDiv[mf, sms]], Lit_100]],
               DToInt[DMul[mf, Lit_100]]]

ClaimedWordOf ==
    [x \in {<<v, c[1], c[2]>> : v \in SpeedCmds, c \in Configs} |->
        ClaimedWord(x[1], x[2], x[3])]

\* C7 as stated: for every requested speed of any magnitude, the word that
\* set_vfd_freq computes is min(trunc(|speed| * (max_freq /
\* spindle_max_speed) * 100), max_freq * 100).
C7_WordIsCappedProduct ==
    [][ (pc = "set_vfd_freq" /\ pc' = "freq_write")
        => freq' = ClaimedWordOf[<<haldata.speed_cmd, spindle_max_speed, max_freq>>] ]_vars

\* The maximum frequency in register units, max_freq * 100
WordLimitOf == [c \in Configs |-> DToInt[DMul[c[2], Lit_100]]]

\* C8: every word that set_vfd_freq writes to the frequency register is
\* at least 0 and at most max_freq * 100.
C8_WordWithinLimit ==
    pc = "freq_write"
       => /\ freq >= 0
          /\ freq <= WordLimitOf[<<spindle_max_speed, max_freq>>]

\* A speed above spindle_max_speed is being written, capped at the limit
C8_Witness ==
    /\ pc = "freq_write"
    /\ haldata.speed_cmd = DOfInt[30000]
    /\ spindle_max_speed = DOfInt[24000]
    /\ freq = 40000

\* The register word the drive reported for an output frequency: the
\* frequency in units of 0.01 Hz
ReportedWordOf ==
    [x \in {DMul[DOfInt[n], Lit_0_01] : n \in OutputInputs} |->
        CHOOSE n \in OutputInputs : DMul[DOfInt[n], Lit_0_01] = x]

\* C9 as stated: the frequency write is skipped exactly when the target
\* word equals the observed output frequency in units of 0.01 Hz, whatever
\* spindle_on, spindle_fwd, spindle_rev and the outcome of the state write.
C9_SkipIffEqualAtResolution ==
    [][ (pc = "set_vfd_freq" /\ pc' # pc)
        => (pc' = "write_data"
              <=> FreqWordOf[<<haldata.speed_cmd, hzcalc, max_freq>>]
                     = ReportedWordOf[haldata.output_freq]) ]_vars

\* C10: when write_data ends a tick with spindle_on false, at_speed is
\* false, whatever freq_cmd, output_freq, speed_tolerance and the result
\* of the read.
C10_NotAtSpeedWhenOff ==
    [][ (pc = "write_data" /\ pc' = "loop" /\ haldata.spindle_on = 0)
        => haldata'.at_speed = 0 ]_vars

\* A tick has ended with the spindle off while the drive's output frequency
\* is within tolerance of the commanded one
C10_Witness ==
    /\ pc = "loop"
    /\ haldata.spindle_on = 0
    /\ haldata.at_speed = 0
    /\ haldata.is_stopped = 0
    /\ WithinToleranceOf[<<haldata.freq_cmd, haldata.output_freq,
                           haldata.speed_tolerance>>] = 1

\* C11: when write_data ends a tick whose output_freq is 0, at_speed is
\* false and the tick completes, for every freq_cmd and speed_tolerance:
\* the quotient by zero is infinite or not a number and compares false.
C11_NotAtSpeedWhenOutputZero ==
    [][ (pc = "write_data" /\ pc' # pc /\ DIsZero(haldata.output_freq))
        => (pc' = "loop" /\ haldata'.at_speed = 0 /\ haldata'.is_stopped = 1) ]_vars

\* A tick has ended with the spindle enabled, a commanded frequency other
\* than 0 and an output frequency of 0
C11_Witness ==
    /\ pc = "loop"
    /\ haldata.spindle_on = 1
    /\ DIsZero(haldata.output_freq)
    /\ ~DIsZero(haldata.freq_cmd)
    /\ haldata.is_stopped = 1
    /\ haldata.at_speed = 0

\* C12: at the end of every tick, is_stopped is true exactly when the
\* output_freq of the snapshot the tick used is 0, a snapshot kept after a
\* failed read included.
C12_StoppedIffOutputZero ==
    [][ (pc = "write_data" /\ pc' = "loop")
        => /\ haldata'.is_stopped = 1 <=> DIsZero(haldata.output_freq)
           /\ haldata'.is_stopped \in {0, 1}
           /\ haldata'.output_freq = haldata.output_freq ]_vars

\* A tick whose reads all failed has ended on the snapshot of an earlier
\* tick, the drive turning: is_stopped is false
C12_Witness ==
    /\ pc = "loop"
    /\ haldata.modbus_errors >= 6
    /\ ~DIsZero(haldata.output_freq)
    /\ haldata.is_stopped = 0

\* C13: vfd_error is sticky: once it is true the component never makes it
\* false again, whatever later snapshots hold and whether reads succeed.
C13_ErrorSticky ==
    [][ (pc \notin {"options", "setup"} /\ haldata.vfd_error = 1)
        => haldata'.vfd_error = 1 ]_vars

\* A later tick has ended on a snapshot with bits 3 and 4 clear and
\* vfd_error is still true
C13_Witness ==
    /\ pc = "loop"
    /\ haldata.vfd_error = 1
    /\ (haldata.inverter_status \div 8) % 4 = 0

\* C14: vfd_error is true at the end of a tick exactly when bit 3 or bit 4
\* of inverter_status is set in the snapshot of this tick or was in that of
\* an earlier tick: it is false before the first tick, write_data makes it
\* true exactly when it was true or the bits are set, and no other step of
\* a tick, a failed transport operation included, changes it.
C14_ErrorIffStatusBits ==
    [][ /\ pc = "setup" /\ pc' = "loop" => haldata'.vfd_error = 0
        /\ (pc = "write_data" /\ pc' = "loop")
              => (haldata'.vfd_error = 1
                    <=> \/ haldata.vfd_error = 1
                        \/ (haldata.inverter_status \div 8) % 4 # 0)
        /\ (pc \notin {"options", "setup"} /\ ~(pc = "write_data" /\ pc' = "loop"))
              => haldata'.vfd_error = haldata.vfd_error ]_vars

\* A tick has ended after failed transport operations with vfd_error false
C14_Witness ==
    /\ pc = "loop"
    /\ haldata.modbus_errors >= 6
    /\ ~DIsZero(haldata.output_freq)
    /\ haldata.vfd_error = 0

\* The status outputs of write_data
StatusOutputs(h) == <<h.is_stopped, h.speed_fb, h.at_speed, h.vfd_error>>

\* C15: the steps of a tick come in a fixed order: the read attempts, then
\* the state-write attempts, then the frequency-write attempts, then the
\* status outputs; no state decision or state write follows a frequency
\* write of the same tick, and the status outputs change only in the last
\* step.
C15_TickOrder ==
    [][ /\ pc' = "read_data" => pc \in {"loop", "read_data"}
        /\ pc' = "set_vfd_state" => pc \in {"read_data", "set_vfd_state"}
        /\ pc' = "state_write" => pc \in {"set_vfd_state", "state_write"}
        /\ pc' = "set_vfd_freq" => pc \in {"set_vfd_state", "state_write", "set_vfd_freq"}
        /\ pc' = "freq_write" => pc \in {"set_vfd_freq", "freq_write"}
        /\ pc' = "write_data" => pc \in {"set_vfd_freq", "freq_write", "write_data"}
        /\ (pc' = "loop" /\ pc # "setup") => pc \in {"write_data", "loop"}
        /\ (pc \notin {"options", "setup"} /\ ~(pc = "write_data" /\ pc' = "loop"))
              => StatusOutputs(haldata') = StatusOutputs(haldata) ]_vars

\* A frequency write is being attempted in a tick whose state write failed
\* all its attempts
C15_Witness ==
    /\ pc = "freq_write"
    /\ rc = -1
    /\ haldata.modbus_errors >= 6
    /\ NewState(haldata.spindle_on, haldata.spindle_fwd, haldata.spindle_rev,
                haldata.inverter_status) # NoState

\* C16: cancellation is cooperative.  done is acted on only by the loop
\* test: the loop is left only from its top and only with done set, an
\* iteration in progress goes on through its read, writes and status
\* update whatever done is, and after the exit nothing happens any more.
\* With every call returning, an iteration in progress when done is set
\* reaches its status update, and the program reaches its exit.
C16_CooperativeCancel ==
    /\ [][ /\ (pc = "loop" /\ pc' # pc)
                => (IF done = 0 THEN pc' = "read_data" ELSE pc' = "exit")
           /\ (pc \in {"read_data", "set_vfd_state", "state_write", "set_vfd_freq",
                        "freq_write"} /\ pc' # pc)
                => pc' \in {"set_vfd_state", "state_write", "set_vfd_freq",
                            "freq_write", "write_data"}
           /\ (pc = "write_data" /\ pc' # pc) => pc' = "loop"
           /\ pc = "exit" => pc' = "exit" /\ haldata' = haldata ]_vars
    /\ (done = 1 /\ pc = "read_data") ~> (done = 1 /\ pc = "write_data")
    /\ (done = 1) ~> (pc = "exit")

\* done is set and a frequency write of the iteration is being retried
C16_Witness ==
    /\ pc = "freq_write"
    /\ done = 1
    /\ retries >= 1

\* a <= b
ClaimedLessEq(a, b) == DLess[a, b] \/ DEq(a, b)

\* C17 as stated: at every iteration the period the loop sleeps for lies in
\* [0.001, 2.0], for any value of the period parameter: a value below
\* 0.001 has become 0.001, one above 2.0 has become 2.0, one inside the
\* range is unchanged, and the result is stored in the parameter.
C17_PeriodInRange ==
    [][ (pc = "loop" /\ pc' = "read_data")
        => /\ ClaimedLessEq(Lit_0_001, haldata'.period)
           /\ ClaimedLessEq(haldata'.period, Lit_2_0)
           /\ DLess[haldata.period, Lit_0_001] => haldata'.period = Lit_0_001
           /\ DGreater[haldata.period, Lit_2_0] => haldata'.period = Lit_2_0
           /\ (ClaimedLessEq(Lit_0_001, haldata.period)
                 /\ ClaimedLessEq(haldata.period, Lit_2_0))
                => haldata'.period = haldata.period ]_vars

\* The Command: the pins the external controller writes
CommandPart(h) == <<h.spindle_on, h.spindle_fwd, h.spindle_rev, h.speed_cmd>>

C19_NoMemoryOfFailure ==
    [][ /\ (pc \in {"state_write", "freq_write"} /\ pc' # pc)
           => /\ [haldata' EXCEPT !.modbus_errors = 0]
                    = [haldata EXCEPT !.modbus_errors = 0]
              /\ retries' = 0 /\ state' = 0 /\ freq' = 0
        /\ (pc = "set_vfd_state" /\ pc' # pc)
           => IF /\ haldata.spindle_on = 1 /\ haldata.spindle_fwd = 1
                 /\ haldata.inverter_status % 4 # 1
              THEN pc' = "state_write" /\ state' = 1 /\ retries' = 0
              ELSE IF /\ haldata.spindle_on = 1 /\ haldata.spindle_rev = 1
                      /\ haldata.inverter_status % 4 # 3
              THEN pc' = "state_write" /\ state' = 3 /\ retries' = 0
              ELSE IF haldata.spindle_on = 0 /\ haldata.inverter_status % 2 # 0
              THEN pc' = "state_write" /\ state' = 0 /\ retries' = 0
              ELSE pc' = "set_vfd_freq"
        /\ (pc = "set_vfd_freq" /\ pc' # pc)
           => IF FreqWordOf[<<haldata.speed_cmd, hzcalc, max_freq>>]
                    = OutputWordOf[haldata.output_freq]
              THEN pc' = "write_data"
              ELSE /\ pc' = "freq_write" /\ retries' = 0
                   /\ freq' = FreqWordOf[<<haldata.speed_cmd, hzcalc, max_freq>>] ]_vars

\* After the six attempts of an earlier tick failed, a tick whose read and
\* state decision went well enters the frequency write with retries = 0
C19_Witness ==
    /\ pc = "freq_write"
    /\ retries = 0
    /\ rc = 0
    /\ haldata.modbus_errors = 6

\* C20 as stated: with every command held, every transport operation
\* succeeding and a drive that echoes what is written, the loop reaches a
\* tick after which no state write and no frequency write is issued.
C20_Converges == <>[](pc \notin {"state_write", "freq_write"})

\* a > 0
ClaimedPositive(a) == a.k # "nan" /\ ~DIsZero(a) /\ a.s = 0

\* C24: when the value parsed for -S or for -F is not positive, the
\* program ends at once with a result other than 0 and the loop never
\* begins: from the exit no step is taken, so that no register is read or
\* written and no tick runs.
C24_BadConfigNeverRuns ==
    [][ /\ (/\ pc = "options"
            /\ (~ClaimedPositive(spindle_max_speed') \/ ~ClaimedPositive(max_freq')))
           => (pc' = "exit" /\ retval' # 0)
        /\ pc = "exit" => (pc' = "exit" /\ haldata' = haldata) ]_vars

\* The program has ended on -S 0: the result is -1 and the HAL data was
\* never touched
C24_Witness ==
    /\ pc = "exit"
    /\ retval = -1
    /\ DIsZero(spindle_max_speed)
    /\ haldata = HalZero

\* The snapshot the eight registers of one read stand for: register i to
\* field i, the frequencies in 0.01 Hz, current, voltage and load in 0.1
ClaimedSnapshot(r) ==
    [ inverter_status |-> r[1],
      freq_cmd        |-> DMul[Lit_0_01, DOfInt[r[2]]],
      output_freq     |-> DMul[Lit_0_01, DOfInt[r[3]]],
      output_current  |-> DMul[Lit_0_1, DOfInt[r[4]]],
      output_volt     |-> DMul[Lit_0_1, DOfInt[r[5]]],
      dc_bus_volt     |-> r[6],
      motor_load      |-> DMul[Lit_0_1, DOfInt[r[7]]],
      inverter_temp   |-> r[8] ]

ClaimedSnapshots == {ClaimedSnapshot(r) : r \in Frames}

\* C25: the successful return of read_data leaves the eight snapshot fields
\* equal to the scaled registers of one frame, all eight of the same frame,
\* and no other step changes any of them: no state mixes the fields of two
\* reads and a failed attempt stores nothing.
C25_SnapshotOfOneRead ==
    [][ IF pc = "read_data" /\ pc' = "set_vfd_state" /\ rc' = 0
        THEN SnapshotPart(haldata') \in ClaimedSnapshots
        ELSE SnapshotPart(haldata') = SnapshotPart(haldata) ]_vars

\* A read has succeeded after failed attempts, over the snapshot of an
\* earlier read: the eight fields are those of the frame with status 9
C25_Witness ==
    /\ pc = "set_vfd_state"
    /\ rc = 0
    /\ haldata.modbus_errors >= 2
    /\ SnapshotPart(haldata) = ClaimedSnapshot(<<9, 8333, 8333, 12, 917, 308, 20, 33>>)

\* The statuses that differ from st in bits 3 and 4 at most
FaultVariants(st) == {(st % 8) + 8 * b + 32 * (st \div 32) : b \in 0..3}

\* C23: bits 3 and 4 of inverter_status reach nothing but vfd_error.  With
\* any other value of the two bits in the snapshot, the step of
\* set_vfd_state takes the same decision (the same write or none), the step
\* of write_data gives the same is_stopped, speed_fb and at_speed, and
\* write_data changes nothing but its four status outputs (modbus_errors
\* among the fields it leaves alone).
C23_FaultOnlyInVfdError ==
    [][ /\ (pc = "set_vfd_state" /\ pc' # pc)
           => \A alt \in FaultVariants(haldata.inverter_status) :
                 IF NewState(haldata.spindle_on, haldata.spindle_fwd,
                             haldata.spindle_rev, alt) = NoState
                 THEN pc' = "set_vfd_freq"
                 ELSE /\ pc' = "state_write"
                      /\ state' = NewState(haldata.spindle_on, haldata.spindle_fwd,
                                           haldata.spindle_rev, alt)
        /\ (pc = "write_data" /\ pc' # pc)
           => /\ \A alt \in FaultVariants(haldata.inverter_status) :
                    /\ haldata'.at_speed =
                          AtSpeed([haldata EXCEPT !.inverter_status = alt])
                    /\ haldata'.is_stopped =
                          IsStopped([haldata EXCEPT !.inverter_status = alt].output_freq)
              /\ haldata' = [haldata EXCEPT !.is_stopped = haldata'.is_stopped,
                                            !.speed_fb = haldata'.speed_fb,
                                            !.at_speed = haldata'.at_speed,
                                            !.vfd_error = haldata'.vfd_error]
              /\ haldata'.speed_fb = SpeedFbOf[<<haldata.output_freq, hzcalc>>] ]_vars

\* A tick has ended on a snapshot whose status reports a fault: vfd_error is
\* set, and the spindle is reported at speed and not stopped all the same
C23_Witness ==
    /\ pc = "loop"
    /\ haldata.inverter_status = 9
    /\ haldata.vfd_error = 1
    /\ haldata.at_speed = 1
    /\ haldata.is_stopped = 0

\* C26 (as claimed): the state word 3 is chosen only when the spindle is
\* enabled, reverse is requested and forward is not requested.
C26_ReverseOnlyWithoutForward ==
    [][ (pc = "set_vfd_state" /\ pc' = "state_write" /\ state' = VFD_CCW)
        => /\ haldata.spindle_on # 0
           /\ haldata.spindle_rev # 0
           /\ haldata.spindle_fwd = 0 ]_vars

\* C27: with spindle_on false at the decision of set_vfd_state, neither 1
\* nor 3 is chosen whatever spindle_fwd and spindle_rev are, and when the
\* run bit of the snapshot is 1 the write of 0 is entered.
C27_DisabledOnlyStops ==
    [][ (pc = "set_vfd_state" /\ pc' # pc /\ haldata.spindle_on = 0)
        => /\ ~(pc' = "state_write" /\ state' \in {VFD_CW, VFD_CCW})
           /\ (haldata.inverter_status % 2) = 1
                 => (pc' = "state_write" /\ state' = VFD_STOP) ]_vars

\* The write of 0 is under way for a disabled spindle whose forward pin is
\* still set
C27_Witness ==
    /\ pc = "state_write"
    /\ state = VFD_STOP
    /\ haldata.spindle_on = 0
    /\ haldata.spindle_fwd # 0
    /\ (haldata.inverter_status % 2) = 1

\* C29: in one iteration modbus_errors, at 0 when it begins, never exceeds
\* 18.  Each failed attempt adds 1 and nothing else adds anything: an
\* operation returns -1 on its sixth failed attempt (retries at 5, counted
\* from 0 when it began), returns 0 on its k-th attempt with the k - 1
\* failures before it counted in retries, and a skipped write adds nothing.
\* After read_data the counter is 6 exactly when it returned -1; after
\* set_vfd_state that returned -1 it is at least 6.
C29_ErrorsPerTick ==
    /\ [](/\ haldata.modbus_errors <= 18
          /\ pc = "read_data" => haldata.modbus_errors = retries
          /\ pc = "set_vfd_state"
                => /\ retries = 0
                   /\ haldata.modbus_errors <= 6
                   /\ rc = -1 <=> haldata.modbus_errors = 6
          /\ pc = "state_write" => haldata.modbus_errors - retries <= 6
          /\ pc = "set_vfd_freq"
                => /\ retries = 0
                   /\ haldata.modbus_errors <= 12
                   /\ rc = -1 => haldata.modbus_errors >= 6
          /\ pc = "freq_write" => haldata.modbus_errors - retries <= 12)
    /\ [][ /\ haldata'.modbus_errors \in {haldata.modbus_errors,
                                          haldata.modbus_errors + 1}
           /\ haldata'.modbus_errors = haldata.modbus_errors + 1
                 => /\ pc \in AttemptPcs
                    /\ IF retries < 5
                       THEN pc' = pc /\ retries' = retries + 1
                       ELSE pc' # pc /\ rc' = -1 /\ retries' = 0
           /\ (pc \in AttemptPcs /\ pc' # pc /\ rc' = -1)
                 => (retries = 5 /\ haldata'.modbus_errors = haldata.modbus_errors + 1)
           /\ (pc \in {"set_vfd_state", "set_vfd_freq"} /\ pc' # pc)
                 => (retries' = 0 /\ haldata'.modbus_errors = haldata.modbus_errors) ]_vars

\* The iteration has ended after three operations that failed: 18 errors
C29_Witness ==
    /\ pc = "loop"
    /\ rc = -1
    /\ haldata.modbus_errors = 18

\* C28: whatever the earlier operations of the iteration returned, the next
\* step is there to be taken and is taken in full.  read_data is followed by
\* set_vfd_state whether it returned 0 or -1, and set_vfd_state decides from
\* the snapshot that is there; the state write is followed by set_vfd_freq
\* whether it succeeded or failed, and set_vfd_freq decides from the command
\* and the snapshot; the frequency write is followed by the status outputs,
\* which are computed anew before the iteration ends.
C28_FailureDoesNotSuppress ==
    /\ [](/\ pc = "set_vfd_state" => ENABLED set_vfd_state
          /\ pc = "set_vfd_freq" => ENABLED set_vfd_freq
          /\ pc = "write_data" => ENABLED write_data)
    /\ [][ /\ (pc = "read_data" /\ pc' # pc) => pc' = "set_vfd_state"
           /\ (pc = "set_vfd_state" /\ pc' # pc)
                 => IF NewState(haldata.spindle_on, haldata.spindle_fwd,
                                haldata.spindle_rev, haldata.inverter_status) = NoState
                    THEN pc' = "set_vfd_freq"
                    ELSE /\ pc' = "state_write"
                         /\ state' = NewState(haldata.spindle_on, haldata.spindle_fwd,
                                              haldata.spindle_rev,
                                              haldata.inverter_status)
           /\ (pc = "state_write" /\ pc' # pc) => pc' = "set_vfd_freq"
           /\ (pc = "set_vfd_freq" /\ pc' # pc)
                 => IF FreqWordOf[<<haldata.speed_cmd, hzcalc, max_freq>>]
                          = OutputWordOf[haldata.output_freq]
                    THEN pc' = "write_data"
                    ELSE /\ pc' = "freq_write"
                         /\ freq' = FreqWordOf[<<haldata.speed_cmd, hzcalc, max_freq>>]
           /\ (pc = "freq_write" /\ pc' # pc) => pc' = "write_data"
           /\ (pc = "write_data" /\ pc' # pc)
                 => /\ pc' = "loop"
                    /\ haldata'.is_stopped = IsStopped(haldata.output_freq)
                    /\ haldata'.speed_fb = SpeedFbOf[<<haldata.output_freq, hzcalc>>]
                    /\ haldata'.at_speed = AtSpeed(haldata) ]_vars

\* The read has failed, the state write has failed, and the frequency write
\* is under way
C28_Witness ==
    /\ pc = "freq_write"
    /\ rc = -1
    /\ haldata.modbus_errors = 12

\* C22 (as claimed): in the iteration that began with the command pins at
\* TickCommand, set_vfd_state decides from the spindle_on, spindle_fwd and
\* spindle_rev of TickCommand, set_vfd_freq from its speed command, and
\* at_speed is forced by its spindle_on, whatever the pins were changed to
\* while the iteration ran.
C22_CommandOfTickStart ==
    [][ /\ (pc = "set_vfd_state" /\ pc' # pc)
              => IF NewState(TickCommand[1], TickCommand[2], TickCommand[3],
                             haldata.inverter_status) = NoState
                 THEN pc' = "set_vfd_freq"
                 ELSE /\ pc' = "state_write"
                      /\ state' = NewState(TickCommand[1], TickCommand[2],
                                           TickCommand[3], haldata.inverter_status)
        /\ (pc = "set_vfd_freq" /\ pc' # pc)
              => IF FreqWordOf[<<TickCommand[4], hzcalc, max_freq>>]
                       = OutputWordOf[haldata.output_freq]
                 THEN pc' = "write_data"
                 ELSE /\ pc' = "freq_write"
                      /\ freq' = FreqWordOf[<<TickCommand[4], hzcalc, max_freq>>]
        /\ (pc = "write_data" /\ pc' # pc)
              => haldata'.at_speed =
                    AtSpeed([haldata EXCEPT !.spindle_on = TickCommand[1]]) ]_vars

\* C21: with spindle_on true and output_freq not zero when write_data sets
\* its outputs, at_speed is 1 exactly when |1 - freq_cmd / output_freq| is
\* less than speed_tolerance, and 0 otherwise; on the frequencies tried
\* that is exactly when |output_freq - freq_cmd| is less than
\* speed_tolerance * |output_freq|.
C21_AtSpeedRule ==
    [][ (/\ pc = "write_data"
         /\ pc' = "loop"
         /\ haldata.spindle_on # 0
         /\ ~DIsZero(haldata.output_freq))
        => IF DLess[DAbs[DSub[Lit_1, DDiv[haldata.freq_cmd, haldata.output_freq]]],
                    haldata.speed_tolerance]
           THEN /\ haldata'.at_speed = 1
                /\ DLess[DAbs[DSub[haldata.output_freq, haldata.freq_cmd]],
                         DMul[haldata.speed_tolerance, DAbs[haldata.output_freq]]]
           ELSE /\ haldata'.at_speed = 0
                /\ ~DLess[DAbs[DSub[haldata.output_freq, haldata.freq_cmd]],
                          DMul[haldata.speed_tolerance, DAbs[haldata.output_freq]]] ]_vars

\* The example: freq_cmd 100.00 Hz, output_freq 99.50 Hz, tolerance 0.01,
\* spindle on, and at_speed is 1
C21_Witness ==
    /\ pc = "loop"
    /\ haldata.spindle_on = 1
    /\ haldata.freq_cmd = DMul[DOfInt[10000], Lit_0_01]
    /\ haldata.output_freq = DMul[DOfInt[9950], Lit_0_01]
    /\ haldata.speed_tolerance = Lit_0_01
    /\ haldata.at_speed = 1

\* |s| <= spindle_max_speed
ClaimedInRange(s, sms) == ~DGreater[DAbs[s], sms]

\* C30: write_data leaves speed_fb at output_freq divided by max_freq /
\* spindle_max_speed, the scale computed at startup.  It is 0 when
\* output_freq is 0, and when output_freq is what the drive reports for the
\* word written for a speed command within the range, it differs from the
\* magnitude of the command by less than what 0.01 Hz amounts to.
C30_SpeedFeedback ==
    [][ (pc = "write_data" /\ pc' = "loop")
        => /\ hzcalc = DDiv[max_freq, spindle_max_speed]
           /\ ClaimedPositive(hzcalc)
           /\ haldata'.speed_fb = DDiv[haldata.output_freq,
                                       DDiv[max_freq, spindle_max_speed]]
           /\ DIsZero(haldata.output_freq) => haldata'.speed_fb = DZero
           /\ (/\ ClaimedInRange(haldata.speed_cmd, spindle_max_speed)
               /\ haldata.output_freq =
                     DMul[DOfInt[FreqWordOf[<<haldata.speed_cmd, hzcalc, max_freq>>]],
                          Lit_0_01])
              => DLess[DAbs[DSub[haldata'.speed_fb, DAbs[haldata.speed_cmd]]],
                       DDiv[Lit_0_01, hzcalc]] ]_vars

\* The drive reports 83.33 Hz, the word written for -5000 rpm, and speed_fb
\* lies between 4999 and 5000
C30_Witness ==
    /\ pc = "loop"
    /\ haldata.speed_cmd = DOfInt[-5000]
    /\ haldata.output_freq = DMul[DOfInt[8333], Lit_0_01]
    /\ DGreater[haldata.speed_fb, DOfInt[4999]]
    /\ DLess[haldata.speed_fb, DOfInt[5000]]

===========================================================================
